---- MODULE Spec2Model ----
(***************************************************************************)
(* The bead-ring canvas component (Canvas): the parameter snapshot, the    *)
(* memoised BeadField (ringLayers), the animation clock and the per-frame  *)
(* redraw (draw), with JavaScript numbers modelled as binary floating      *)
(* point of reduced precision (round to nearest, ties to even) extended    *)
(* with NaN and the two infinities.                                        *)
(***************************************************************************)
EXTENDS Integers, Sequences, FiniteSets, TLC

(***************************************************************************)
(* Numbers.  A finite number is an integer count of 1/Unit, kept to        *)
(* MantissaBits significant bits; NaN and +/-Infinity are separate values. *)
(***************************************************************************)
FracBits == 8

MantissaBits == 8

Unit == 2 ^ FracBits

NaN == [k |-> "nan", v |-> 0]

PosInf == [k |-> "inf", v |-> 1]

NegInf == [k |-> "inf", v |-> -1]

IsFin(a) == a.k = "fin"

IsNaN(a) == a.k = "nan"

AbsInt(n) == IF n < 0 THEN -n ELSE n

SgnInt(n) == IF n < 0 THEN -1 ELSE IF n > 0 THEN 1 ELSE 0

\* n / d rounded to the nearest integer, ties to even (d > 0).
DivRound(n, d) ==
  LET Nearest(q, r) ==
        IF (2 * r > d) \/ (2 * r = d /\ q % 2 = 1) THEN q + 1 ELSE q
  IN SgnInt(n) * Nearest(AbsInt(n) \div d, AbsInt(n) % d)

RECURSIVE Quantum(_, _)
\* The spacing of representable numbers around magnitude a (a power of two).
Quantum(a, q) == IF a \div q < 2 ^ MantissaBits THEN q ELSE Quantum(a, 2 * q)

\* Round an exact count of 1/Unit to the nearest representable number.
Rnd(n) == LET To(q) == DivRound(n, q) * q IN To(Quantum(AbsInt(n), 1))

Fin(n) == [k |-> "fin", v |-> Rnd(n)]

Num(n) == Fin(n * Unit)

Zero == Num(0)

Neg(a) == IF IsFin(a) THEN Fin(-a.v) ELSE IF IsNaN(a) THEN NaN ELSE [a EXCEPT !.v = -a.v]

Sign(a) == SgnInt(a.v)

\* a + b
Add(a, b) ==
  IF IsNaN(a) \/ IsNaN(b) THEN NaN
  ELSE IF IsFin(a) /\ IsFin(b) THEN Fin(a.v + b.v)
  ELSE IF IsFin(a) THEN b
  ELSE IF IsFin(b) THEN a
  ELSE IF a.v = b.v THEN a ELSE NaN

\* a - b
Sub(a, b) == Add(a, Neg(b))

\* a * b
Mul(a, b) ==
  IF IsNaN(a) \/ IsNaN(b) THEN NaN
  ELSE IF IsFin(a) /\ IsFin(b) THEN Fin(DivRound(a.v * b.v, Unit))
  ELSE IF Sign(a) * Sign(b) = 0 THEN NaN
  ELSE IF Sign(a) * Sign(b) > 0 THEN PosInf ELSE NegInf

\* a / b
Div(a, b) ==
  IF IsNaN(a) \/ IsNaN(b) THEN NaN
  ELSE IF IsFin(a) /\ IsFin(b) THEN
    IF b.v = 0 THEN (IF a.v = 0 THEN NaN ELSE IF a.v > 0 THEN PosInf ELSE NegInf)
    ELSE Fin(SgnInt(b.v) * DivRound(a.v * Unit, AbsInt(b.v)))
  ELSE IF IsFin(b) THEN (IF Sign(a) * (IF b.v < 0 THEN -1 ELSE 1) > 0 THEN PosInf ELSE NegInf)
  ELSE IF IsFin(a) THEN Zero
  ELSE NaN

\* a < b (false whenever either side is NaN)
Lt(a, b) ==
  IF IsNaN(a) \/ IsNaN(b) THEN FALSE
  ELSE IF IsFin(a) /\ IsFin(b) THEN a.v < b.v
  ELSE IF IsFin(a) THEN b.v > 0
  ELSE IF IsFin(b) THEN a.v < 0
  ELSE a.v < b.v

\* Math.abs
Abs(a) == IF IsFin(a) THEN Fin(AbsInt(a.v)) ELSE IF IsNaN(a) THEN NaN ELSE PosInf

\* Math.floor
Floor(a) ==
  IF IsFin(a) THEN Fin((a.v - (a.v % Unit))) ELSE a

PiU == (314159 * Unit) \div 100000

TwoPiU == (628319 * Unit) \div 100000

HalfPiU == (157080 * Unit) \div 100000

Ln2U == (69315 * Unit) \div 100000

\* sin y for 0 <= y <= pi/2 (y and the result in 1/Unit): the Taylor polynomial.
SinQ(y) ==
  LET Clamp(s) == IF s > Unit THEN Unit ELSE IF s < 0 THEN 0 ELSE s
      Series(t3, t5, t7) == Clamp(y - t3 + t5 - t7)
      Term(prev, k) == (prev * ((y * y) \div Unit)) \div (k * Unit)
      From5(t3, t5) == Series(t3, t5, Term(t5, 42))
      From3(t3) == From5(t3, Term(t3, 20))
  IN From3(Term(y, 6))

\* sin of a count of 1/Unit, by reduction to the first quadrant.
SinU(n) ==
  LET Reduced(r) ==
        IF r <= HalfPiU THEN SinQ(r)
        ELSE IF r <= PiU THEN SinQ(PiU - r)
        ELSE IF r <= PiU + HalfPiU THEN -SinQ(r - PiU)
        ELSE -SinQ(TwoPiU - r)
  IN Reduced(n % TwoPiU)

\* Math.sin
Sin(a) == IF IsFin(a) THEN Fin(SinU(a.v)) ELSE NaN

\* Math.cos
Cos(a) == IF IsFin(a) THEN Fin(SinU(a.v + HalfPiU)) ELSE NaN

RECURSIVE AsinSearch(_, _, _)
\* The largest y in lo..hi with SinQ(y) <= x, given SinQ(lo) <= x.
AsinSearch(x, lo, hi) ==
  IF lo >= hi THEN lo
  ELSE LET Halve(mid) ==
             IF SinQ(mid) <= x THEN AsinSearch(x, mid, hi) ELSE AsinSearch(x, lo, mid - 1)
       IN Halve((lo + hi + 1) \div 2)

\* An arcsine that clamps its argument to [-1, 1] instead of answering NaN.
AsinClamped(a) ==
  IF ~IsFin(a) THEN NaN
  ELSE IF AbsInt(a.v) > Unit THEN Fin(SgnInt(a.v) * HalfPiU)
  ELSE Fin(SgnInt(a.v) * AsinSearch(AbsInt(a.v), 0, HalfPiU))

\* Math.asin: NaN outside [-1, 1].
Asin(a) ==
  IF ~IsFin(a) THEN NaN
  ELSE IF AbsInt(a.v) > Unit THEN NaN
  ELSE Fin(SgnInt(a.v) * AsinSearch(AbsInt(a.v), 0, HalfPiU))

\* ln(1 + f) for n = (1 + f) * Unit in [Unit, 2 * Unit): 2 * atanh((n - 1)/(n + 1)).
LnM(n) ==
  LET Series(z, z2) ==
        2 * (z + (z * z2) \div (3 * Unit) + (z * z2 * z2) \div (5 * Unit * Unit))
      Of(z) == Series(z, (z * z) \div Unit)
  IN Of(((n - Unit) * Unit) \div (n + Unit))

RECURSIVE LnU(_)
\* ln of a positive count of 1/Unit.
LnU(n) ==
  IF n >= 2 * Unit THEN Ln2U + LnU(DivRound(n, 2))
  ELSE IF n < Unit THEN LnU(2 * n) - Ln2U
  ELSE LnM(n)

\* Math.log: NaN below zero, -Infinity at zero.
Log(a) ==
  IF IsNaN(a) THEN NaN
  ELSE IF ~IsFin(a) THEN (IF a.v > 0 THEN PosInf ELSE NaN)
  ELSE IF a.v < 0 THEN NaN
  ELSE IF a.v = 0 THEN NegInf
  ELSE Fin(LnU(a.v))


(***************************************************************************)
(* The host, the parameter panel and the scheduler: the inputs.            *)
(***************************************************************************)
\* Number of rings the panel is asked for, at most (besides the default).
MaxRings == 2

\* Number of parameter changes the panel delivers in one run, at most.
MaxChanges == 2

\* Number of times the scheduler's timestamp advances in one run, at most.
MaxAdvances == 1

\* Milliseconds between two scheduler timestamps that differ.
TickMs == 5000

\* The props the host mounts the component with, and its colour scheme.
Hosts ==
  { [height |-> Num(4), width |-> Num(4), scale |-> Num(1), dark |-> FALSE],
    [height |-> Num(4), width |-> Num(8), scale |-> Num(2), dark |-> TRUE] }

\* The values the panel delivers for each named option.
PanelChoices ==
  [ spacing |-> {Num(0), Num(-4), Num(6)},
    outerRingRadius |-> {Num(6)},
    numRings |-> 0..MaxRings,
    beadRadius |-> {Num(1)},
    drawCenterBead |-> BOOLEAN,
    animationRunning |-> BOOLEAN,
    rotation |-> {Zero, Fin(Unit \div 8), Num(-1)},
    color1 |-> {"#000", "#f00"},
    color2 |-> {"#080593", "#0f0"} ]

ParamKeys == DOMAIN PanelChoices

\* useControls: the defaults of the options.
useControls(host) ==
  [ spacing |-> Mul(Num(20), host.scale),
    outerRingRadius |-> host.width,
    numRings |-> 5,
    beadRadius |-> Num(15),
    drawCenterBead |-> TRUE,
    animationRunning |-> TRUE,
    rotation |-> Num(0),
    color1 |-> "#000",
    color2 |-> "#080593" ]

(***************************************************************************)
(* The component's derived values and closures.                            *)
(***************************************************************************)
canvasCenterX(host) == Div(Mul(host.scale, host.width), Num(2))

canvasCenterY(host) == Div(Mul(host.scale, host.height), Num(2))

beadColor(host) == IF host.dark THEN "#fff" ELSE "#000"

\* 2 * Math.PI
TwoPi == Mul(Num(2), Fin(PiU))

\* The closure generateMovement(r, i) returns: it keeps r, i and the colours of
\* the generateMovement it was made by.
generateMovement(gm, r, i) ==
  [r |-> r, i |-> i, color1 |-> gm.color1, color2 |-> gm.color2]

\* Calling that closure with the elapsed seconds t.
Move(m, t) ==
  LET At(level) ==
        [ radius |-> Abs(Mul(level, m.r)),
          color |-> IF Lt(level, Zero) THEN m.color2 ELSE m.color1 ]
  IN At(Sin(Mul(Log(Add(m.i, Num(2))), t)))

\* The angle between two neighbouring points of a ring.
AngularSpacing(spacing, ringRadius) ==
  Mul(Num(2), Asin(Div(spacing, Mul(Num(2), ringRadius))))

\* numPoints: the number of points that fit on the ring's edge.
PointCount(spacing, ringRadius) ==
  Floor(Div(TwoPi, AngularSpacing(spacing, ringRadius)))

\* startingAngle
StartingAngle(rotation, ringIndex) == Mul(Mul(rotation, TwoPi), Num(ringIndex))

\* One bead of a ring, for the loop variable i.
BeadAt(cb, ringRadius, numPoints, i) ==
  LET Placed(theta) ==
        [ x |-> Add(cb.canvasCenterX, Mul(ringRadius, Cos(theta))),
          y |-> Add(cb.canvasCenterY, Mul(ringRadius, Sin(theta))),
          radius |-> cb.beadRadius,
          move |-> generateMovement(cb.generateMovement, cb.beadRadius, i),
          color |-> cb.beadColor ]
  IN Placed(Div(Mul(Mul(i, Num(2)), Fin(PiU)), numPoints))

RECURSIVE BeadLoop(_, _, _, _, _, _)
\* for (let i = 0 + startingAngle; i < numPoints + startingAngle; i++): the beads
\* pushed, or hung when the loop cannot end (an infinite bound, or an i that
\* i++ no longer changes).
BeadLoop(cb, ringRadius, numPoints, startingAngle, i, acc) ==
  IF ~Lt(i, Add(numPoints, startingAngle)) THEN [beads |-> acc, hung |-> FALSE]
  ELSE IF ~IsFin(Add(numPoints, startingAngle)) \/ Add(i, Num(1)) = i
    THEN [beads |-> acc, hung |-> TRUE]
  ELSE BeadLoop(cb, ringRadius, numPoints, startingAngle, Add(i, Num(1)),
                Append(acc, BeadAt(cb, ringRadius, numPoints, i)))

\* a <= b (false whenever either side is NaN)
Le(a, b) == ~IsNaN(a) /\ ~IsNaN(b) /\ ~Lt(b, a)

RECURSIVE BeadLoopInclusive(_, _, _, _, _, _)
\* The loop, were its test i <= numPoints + startingAngle.
BeadLoopInclusive(cb, ringRadius, numPoints, startingAngle, i, acc) ==
  IF ~Le(i, Add(numPoints, startingAngle)) THEN [beads |-> acc, hung |-> FALSE]
  ELSE IF ~IsFin(Add(numPoints, startingAngle)) \/ Add(i, Num(1)) = i
    THEN [beads |-> acc, hung |-> TRUE]
  ELSE BeadLoopInclusive(cb, ringRadius, numPoints, startingAngle, Add(i, Num(1)),
                         Append(acc, BeadAt(cb, ringRadius, numPoints, i)))

\* createBeadRing with that loop.
createBeadRingInclusive(cb, ringRadius, ringIndex) ==
  LET Points(numPoints, startingAngle) ==
        BeadLoopInclusive(cb, ringRadius, numPoints, startingAngle,
                          Add(Zero, startingAngle), <<>>)
  IN Points(PointCount(cb.spacing, ringRadius), StartingAngle(cb.rotation, ringIndex))

\* createBeadRing(ringRadius, ringIndex), cb being the values the callback closes over.
createBeadRing(cb, ringRadius, ringIndex) ==
  LET Points(numPoints, startingAngle) ==
        BeadLoop(cb, ringRadius, numPoints, startingAngle, Add(Zero, startingAngle), <<>>)
  IN Points(PointCount(cb.spacing, ringRadius), StartingAngle(cb.rotation, ringIndex))

\* The radius of ring i, were the rings counted from one.
RingRadiusFromOne(outerRingRadius, numRings, i) ==
  Sub(outerRingRadius, Mul(Num(i + 1), Div(outerRingRadius, Num(numRings))))

\* The radius of ring i.
RingRadius(outerRingRadius, numRings, i) ==
  Sub(outerRingRadius, Mul(Num(i), Div(outerRingRadius, Num(numRings))))

RECURSIVE RingLoop(_, _, _, _, _)
\* for (let i = 0; i < numRings; i++) rings.push(...): hung as soon as a ring is.
RingLoop(cb, numRings, outerRingRadius, i, acc) ==
  IF ~(i < numRings) THEN [rings |-> acc, hung |-> FALSE]
  ELSE LET Push(radius, made) ==
             IF made.hung THEN [rings |-> acc, hung |-> TRUE]
             ELSE RingLoop(cb, numRings, outerRingRadius, i + 1,
                           Append(acc, [radius |-> radius, beads |-> made.beads]))
           Ring(radius) == Push(radius, createBeadRing(cb, radius, i + 1))
       IN Ring(RingRadius(outerRingRadius, numRings, i))

\* The body of the ringLayers memo.
BuildRingLayers(cb, numRings, outerRingRadius) ==
  RingLoop(cb, numRings, outerRingRadius, 0, <<>>)


(***************************************************************************)
(* Rendering the component: the hooks.  A callback is the record of the    *)
(* values it closes over; it is kept as long as its dependency list is     *)
(* unchanged.                                                              *)
(***************************************************************************)
\* The dependency list of generateMovement.
MovementDeps(c) == <<c.color1, c.color2>>

\* A dependency list of createBeadRing that leaves the rotation out.
BeadRingDepsWithoutRotation(c) ==
  <<c.beadColor, c.beadRadius, c.canvasCenterX, c.canvasCenterY, c.generateMovement,
    c.spacing>>

\* The dependency list of createBeadRing.
BeadRingDeps(c) ==
  <<c.beadColor, c.beadRadius, c.canvasCenterX, c.canvasCenterY, c.generateMovement,
    c.rotation, c.spacing>>

\* The dependency list of ringLayers.
RingLayersDeps(createRing, numRings, outerRingRadius) ==
  <<createRing, numRings, outerRingRadius>>

\* The dependency list of draw.
DrawDeps(c) ==
  <<c.height, c.scale, c.width, c.drawCenterBead, c.ringLayers, c.animationRunning,
    c.generateMovement, c.beadRadius, c.canvasCenterX, c.canvasCenterY, c.beadColor>>

\* One render of Canvas with the options p, given the hook cells of the render
\* before (prev.first for the first render): the new cells, and whether the
\* render got stuck building the rings.
Render(h, p, prev) ==
  LET \* useCallback(..., deps): the callback of the render before while deps are equal.
      Kept(old, new, Deps(_)) ==
        IF ~prev.first /\ Deps(old) = Deps(new) THEN old ELSE new
      Cells(gm, cb, built, dr) ==
        [ first |-> FALSE, hung |-> built.hung, generateMovement |-> gm,
          createBeadRing |-> cb,
          ringLayersDeps |-> RingLayersDeps(cb, p.numRings, p.outerRingRadius),
          ringLayers |-> built.rings, draw |-> dr ]
      useDraw(gm, cb, built) ==
        Cells(gm, cb, built,
              Kept(prev.draw,
                   [ height |-> h.height, scale |-> h.scale, width |-> h.width,
                     drawCenterBead |-> p.drawCenterBead, ringLayers |-> built.rings,
                     animationRunning |-> p.animationRunning, generateMovement |-> gm,
                     beadRadius |-> p.beadRadius, canvasCenterX |-> canvasCenterX(h),
                     canvasCenterY |-> canvasCenterY(h), beadColor |-> beadColor(h) ],
                   DrawDeps))
      useRingLayers(gm, cb) ==
        useDraw(gm, cb,
                IF ~prev.first
                   /\ prev.ringLayersDeps = RingLayersDeps(cb, p.numRings, p.outerRingRadius)
                THEN [rings |-> prev.ringLayers, hung |-> FALSE]
                ELSE BuildRingLayers(cb, p.numRings, p.outerRingRadius))
      useCreateBeadRing(gm) ==
        useRingLayers(gm,
                      Kept(prev.createBeadRing,
                           [ spacing |-> p.spacing, rotation |-> p.rotation,
                             beadRadius |-> p.beadRadius, beadColor |-> beadColor(h),
                             canvasCenterX |-> canvasCenterX(h),
                             canvasCenterY |-> canvasCenterY(h),
                             generateMovement |-> gm ],
                           BeadRingDeps))
  IN useCreateBeadRing(Kept(prev.generateMovement,
                            [color1 |-> p.color1, color2 |-> p.color2],
                            MovementDeps))

\* The hook cells before the first render.
NoHooks ==
  [ first |-> TRUE, hung |-> FALSE, generateMovement |-> <<>>, createBeadRing |-> <<>>,
    ringLayersDeps |-> <<>>, ringLayers |-> <<>>, draw |-> <<>> ]

(***************************************************************************)
(* One frame: draw(t).                                                     *)
(***************************************************************************)
\* One ring bead's call, were the bead moved whether or not the animation runs.
BeadCallAlwaysMoving(d, bead, t) ==
  LET Arc(shown) ==
        [x |-> bead.x, y |-> bead.y, radius |-> shown.radius, fillStyle |-> shown.color]
  IN Arc(Move(bead.move, t))

\* The arguments of the arc and the fillStyle of one ring bead.
BeadCall(d, bead, t) ==
  LET Arc(shown) ==
        [x |-> bead.x, y |-> bead.y, radius |-> shown.radius, fillStyle |-> shown.color]
  IN Arc(IF d.animationRunning THEN Move(bead.move, t)
         ELSE [radius |-> bead.radius, color |-> d.beadColor])

RECURSIVE RingCalls(_, _, _, _)
\* for (const { beads } of ringLayers) for (const bead of beads): the calls, in order.
RingCalls(d, rings, t, k) ==
  IF k > Len(rings) THEN <<>>
  ELSE [j \in 1..Len(rings[k].beads) |-> BeadCall(d, rings[k].beads[j], t)]
       \o RingCalls(d, rings, t, k + 1)

\* The centre bead's call, when drawCenterBead.
CenterCall(d, t) ==
  LET Arc(moved) ==
        [ x |-> d.canvasCenterX, y |-> d.canvasCenterY,
          radius |-> IF d.animationRunning THEN moved.radius ELSE d.beadRadius,
          fillStyle |-> moved.color ]
  IN Arc(Move(generateMovement(d.generateMovement, d.beadRadius, Num(0)), t))

\* context.arc throws on a negative radius: the position of the first such call, or 0.
FirstThrow(calls) ==
  IF \E k \in 1..Len(calls) : Lt(calls[k].radius, Zero)
  THEN CHOOSE k \in 1..Len(calls) :
         /\ Lt(calls[k].radius, Zero)
         /\ \A j \in 1..(k - 1) : ~Lt(calls[j].radius, Zero)
  ELSE 0

\* What a tick that issued nothing leaves behind.
NoFrame(t) == [clears |-> <<>>, calls |-> <<>>, threw |-> FALSE, t |-> t]

\* A step that is no tick issues nothing.
NoTick == [ticked |-> FALSE, out |-> NoFrame(Zero)]

\* draw(t), were it to go on without looking at canvasRef.current.
drawUnguarded(d, attached, t) ==
  [ clears |-> << [ x |-> Num(0), y |-> Num(0), w |-> Mul(d.height, d.scale),
                    h |-> Mul(d.width, d.scale) ] >>,
    calls |-> RingCalls(d, d.ringLayers, t, 1)
              \o (IF d.drawCenterBead THEN <<CenterCall(d, t)>> ELSE <<>>),
    threw |-> ~attached, t |-> t ]

\* draw(t), d being the values the callback closes over: the clearRect calls and
\* the filled circles it issues, in order.
draw(d, attached, t) ==
  IF ~attached THEN NoFrame(t)
  ELSE LET Issued(all, bad) ==
             [ clears |-> << [ x |-> Num(0), y |-> Num(0), w |-> Mul(d.height, d.scale),
                               h |-> Mul(d.width, d.scale) ] >>,
               calls |-> IF bad = 0 THEN all ELSE SubSeq(all, 1, bad - 1),
               threw |-> bad # 0,
               t |-> t ]
           Calls(all) == Issued(all, FirstThrow(all))
       IN Calls(RingCalls(d, d.ringLayers, t, 1)
                \o (IF d.drawCenterBead THEN <<CenterCall(d, t)>> ELSE <<>>))

\* The seconds draw is given for the scheduler's timestamp:
\* (time - start) / 1000; the milliseconds are whole numbers and their difference is exact.
Elapsed(time, start) == Fin(DivRound((time - start) * Unit, 1000))

(***************************************************************************)
(* The state machine.                                                      *)
(***************************************************************************)
VARIABLES
  host,            \* the props and colour scheme the component was mounted with
  params,          \* the panel's current options
  hooks,           \* the memoised callbacks and ringLayers of the last render
  canvasRef,       \* whether canvasRef.current is the canvas element
  canvas,          \* the canvas element's height and width attributes
  animationStart,  \* animationStart.current
  now,             \* the scheduler's latest timestamp (ms)
  frame,           \* what the latest step issued to the surface (a tick's frame, or nothing)
  status,          \* "running", or "hung" once a render cannot finish
  changes,         \* parameter changes delivered so far
  advances         \* timestamp advances so far

vars ==
  <<host, params, hooks, canvasRef, canvas, animationStart, now, frame, status,
    changes, advances>>

\* The timestamp at which the component is constructed.
StartMs == 1000

Init ==
  /\ host \in Hosts
  /\ params = useControls(host)
  /\ hooks = Render(host, useControls(host), NoHooks)
  /\ canvasRef = FALSE
  /\ canvas = [height |-> Mul(host.height, host.scale), width |-> Mul(host.width, host.scale)]
  /\ animationStart = StartMs
  /\ now = StartMs
  /\ frame = NoTick
  /\ status = "running"
  /\ changes = 0
  /\ advances = 0

\* The first commit attaches the canvas element to canvasRef.
Mount ==
  /\ status = "running"
  /\ ~canvasRef
  /\ canvasRef' = TRUE
  /\ frame' = NoTick
  /\ UNCHANGED <<host, params, hooks, canvas, animationStart, now, status, changes,
                 advances>>

\* The panel changes one option; the component renders again.
SetParam(key, value) ==
  /\ status = "running"
  /\ changes < MaxChanges
  /\ value # params[key]
  /\ LET Commit(p, r) ==
           /\ params' = p
           /\ hooks' = IF r.hung THEN hooks ELSE r
           /\ status' = IF r.hung THEN "hung" ELSE "running"
         Rerender(p) == Commit(p, Render(host, p, hooks))
     IN Rerender([params EXCEPT ![key] = value])
  /\ changes' = changes + 1
  /\ frame' = NoTick
  /\ UNCHANGED <<host, canvasRef, canvas, animationStart, now, advances>>

\* The callback handed to useAnimationFrame:
\* (time) => draw((time - animationStart.current) / 1000), draw being the latest
\* render's.
FrameCallback(time) == draw(hooks.draw, canvasRef, Elapsed(time, animationStart))

\* The scheduler calls the callback once per refresh with its timestamp, which
\* never goes back.
Tick(dt) ==
  /\ status = "running"
  /\ dt # 0 => advances < MaxAdvances
  /\ now' = now + dt
  /\ advances' = IF dt = 0 THEN advances ELSE advances + 1
  /\ frame' = [ticked |-> TRUE, out |-> FrameCallback(now + dt)]
  /\ UNCHANGED <<host, params, hooks, canvasRef, canvas, animationStart, status, changes>>

Next ==
  \/ Mount
  \/ \E key \in ParamKeys : \E value \in PanelChoices[key] : SetParam(key, value)
  \/ \E dt \in {0, TickMs} : Tick(dt)

Spec == Init /\ [][Next]_vars


(***************************************************************************)
(* What the claims speak of.                                               *)
(***************************************************************************)
RECURSIVE Beads(_, _)
\* The beads of rings k.. of a field, outer ring first, each ring in loop order.
Beads(rings, k) ==
  IF k > Len(rings) THEN <<>> ELSE rings[k].beads \o Beads(rings, k + 1)

\* The latest step was a tick that found the surface attached.
Drawn == frame.ticked /\ canvasRef

\* The seconds the latest tick gave draw.
FrameT == frame.out.t

\* A point count as a number of beads: none when it is NaN or below one.
AsCount(n) == IF IsFin(n) /\ n.v > 0 THEN n.v \div Unit ELSE 0

RECURSIVE SumPointCount(_, _)
\* The sum of pointCount(spacing, ringRadius) over rings i.. of the options p.
SumPointCount(p, i) ==
  IF i >= p.numRings THEN 0
  ELSE AsCount(PointCount(p.spacing, RingRadius(p.outerRingRadius, p.numRings, i)))
       + SumPointCount(p, i + 1)

CenterCount(p) == IF p.drawCenterBead THEN 1 ELSE 0

(***************************************************************************)
(* C1.  A field built with numRings >= 1 and outerRingRadius > 0 has       *)
(* exactly numRings rings; ring i has radius                               *)
(* outerRingRadius - i * (outerRingRadius / numRings) (ring 0 exactly      *)
(* outerRingRadius, the others up to the rounding of the three operations),*)
(* every radius is > 0 and the radii strictly decrease; numRings = 3 and   *)
(* outerRingRadius = 90 give 90, 60, 30.                                   *)
(***************************************************************************)
C1_RingRadii ==
  /\ <<RingRadius(Num(90), 3, 0), RingRadius(Num(90), 3, 1), RingRadius(Num(90), 3, 2)>>
       = <<Num(90), Num(60), Num(30)>>
  /\ (status = "running" /\ params.numRings >= 1 /\ Lt(Zero, params.outerRingRadius)) =>
       LET n == params.numRings
           R == params.outerRingRadius
           rl == hooks.ringLayers
       IN /\ Len(rl) = n
          /\ rl[1].radius = R
          /\ \A i \in 1..n :
               /\ IsFin(rl[i].radius)
               /\ Lt(Zero, rl[i].radius)
               /\ i > 1 => Lt(rl[i].radius, rl[i - 1].radius)
               /\ AbsInt(n * rl[i].radius.v - (n - (i - 1)) * R.v) * (2 ^ MantissaBits)
                    <= 4 * n * R.v

\* A field of two rings, built after the panel asked for two.
C1_Witness ==
  /\ status = "running"
  /\ params.numRings = 2
  /\ Len(hooks.ringLayers) = 2
  /\ changes >= 1

(***************************************************************************)
(* C2.  As claimed: every frame drawn with the surface attached issues     *)
(* exactly sum-over-rings pointCount filled circles, plus one iff          *)
(* drawCenterBead, whatever the rotation.                                   *)
(***************************************************************************)
C2_DrawCallCount ==
  Drawn => Len(frame.out.calls) = SumPointCount(params, 0) + CenterCount(params)

(***************************************************************************)
(* C2 as amended: with rotation = 0 every frame drawn with the surface     *)
(* attached issues exactly sum-over-rings pointCount filled circles (a     *)
(* ring whose pointCount is NaN or negative adding none), plus one, the    *)
(* last and at the canvas centre, iff drawCenterBead; with numRings = 0 no *)
(* ring bead is drawn.                                                     *)
(***************************************************************************)
C2_DrawCallCountUnrotated ==
  (Drawn /\ params.rotation = Zero) =>
    LET calls == frame.out.calls
        rings == SumPointCount(params, 0)
    IN /\ Len(calls) = rings + CenterCount(params)
       /\ params.numRings = 0 => rings = 0
       /\ rings = Len(Beads(hooks.ringLayers, 1))
       /\ params.drawCenterBead =>
            /\ calls[Len(calls)].x = canvasCenterX(host)
            /\ calls[Len(calls)].y = canvasCenterY(host)

\* An unrotated frame of ring beads only.
C2_Witness ==
  /\ Drawn
  /\ params.rotation = Zero
  /\ ~params.drawCenterBead
  /\ Len(frame.out.calls) >= 2


(***************************************************************************)
(* C3.  Switching animationRunning from true to false, the elapsed seconds *)
(* and every other option fixed, leaves the ring layers as they were, and  *)
(* the frame drawn after it has as many ring beads as the frame drawn      *)
(* before it, in the same order and at the same positions, each drawn with *)
(* its static radius (the option beadRadius) where the frame before drew   *)
(* it with the radius of its movement at that time.                        *)
(***************************************************************************)
C3_ToggleAnimation ==
  [][ (params.animationRunning /\ ~params'.animationRunning /\ status' = "running") =>
        LET t == Elapsed(now, animationStart)
            before == draw(hooks.draw, TRUE, t)
            after == draw(hooks'.draw, TRUE, t)
            beads == Beads(hooks.ringLayers, 1)
        IN /\ hooks'.ringLayers = hooks.ringLayers
           /\ Len(after.calls) = Len(before.calls)
           /\ Len(before.calls) = Len(beads) + CenterCount(params)
           /\ \A k \in 1..Len(beads) :
                /\ before.calls[k].x = beads[k].x /\ after.calls[k].x = beads[k].x
                /\ before.calls[k].y = beads[k].y /\ after.calls[k].y = beads[k].y
                /\ before.calls[k].radius = Move(beads[k].move, t).radius
                /\ after.calls[k].radius = beads[k].radius
                /\ beads[k].radius = params.beadRadius ]_vars

\* A frame of static ring beads, drawn after the animation was switched off
\* (it is on by default) some seconds into the run.
C3_Witness ==
  /\ Drawn
  /\ ~params.animationRunning
  /\ now > animationStart
  /\ Len(Beads(hooks.ringLayers, 1)) >= 2
  /\ \A k \in 1..Len(Beads(hooks.ringLayers, 1)) :
       frame.out.calls[k].radius = params.beadRadius

(***************************************************************************)
(* C4.  When drawCenterBead is set the centre bead follows the ring beads' *)
(* policy: animated, its radius and colour are those of                    *)
(* MotionFunction(beadRadius, 0) at the elapsed seconds; not animated, it  *)
(* has the static beadRadius and the fixed fallback colour.                *)
(***************************************************************************)
C4_CenterBeadPolicy ==
  (Drawn /\ params.drawCenterBead) =>
    LET c == frame.out.calls[Len(frame.out.calls)]
        m == Move(generateMovement(hooks.generateMovement, params.beadRadius, Num(0)),
                  FrameT)
    IN IF params.animationRunning
       THEN c.radius = m.radius /\ c.fillStyle = m.color
       ELSE c.radius = params.beadRadius /\ c.fillStyle = beadColor(host)

(***************************************************************************)
(* C5.  The rectangle every frame clears covers the whole surface, which   *)
(* is width * scale wide and height * scale high.                          *)
(***************************************************************************)
C5_ClearCoversSurface ==
  \A k \in 1..Len(frame.out.clears) :
    LET r == frame.out.clears[k]
    IN /\ ~Lt(Zero, r.x)
       /\ ~Lt(Zero, r.y)
       /\ ~Lt(Add(r.x, r.w), canvas.width)
       /\ ~Lt(Add(r.y, r.h), canvas.height)

(***************************************************************************)
(* C6.  Whatever options the panel delivers, building the field ends and   *)
(* no frame raises: the component never stops running.                     *)
(***************************************************************************)
C6_NeverHalts == status = "running" /\ ~frame.out.threw

(***************************************************************************)
(* C7.  Every bead of the field has a movement made with a bead index      *)
(* >= 0, so that log(beadIndex + 2) is a finite number.                    *)
(***************************************************************************)
C7_BeadIndexNonNegative ==
  \A k \in 1..Len(Beads(hooks.ringLayers, 1)) :
    LET i == Beads(hooks.ringLayers, 1)[k].move.i
    IN /\ IsFin(i)
       /\ ~Lt(i, Zero)
       /\ IsFin(Log(Add(i, Num(2))))


(***************************************************************************)
(* C8.  A ring whose radius is less than half the spacing (the angular     *)
(* spacing is then NaN) has no bead, so no circle is drawn for it and no   *)
(* call gets a NaN coordinate; every other ring of the same field, the     *)
(* spacing being positive, has its pointCount >= 2 beads (or one more), at *)
(* finite positions; a frame draws exactly the beads of those rings.       *)
(***************************************************************************)
C8_DegenerateRingIsEmpty ==
  status = "running" =>
    /\ \A k \in 1..Len(hooks.ringLayers) :
         LET ring == hooks.ringLayers[k]
             n == AsCount(PointCount(params.spacing, ring.radius))
         IN IF Lt(Mul(Num(2), ring.radius), params.spacing)
            THEN ring.beads = <<>> /\ n = 0
            ELSE Lt(Zero, params.spacing) =>
                   /\ n >= 2
                   /\ Len(ring.beads) \in {n, n + 1}
                   /\ \A j \in 1..Len(ring.beads) :
                        IsFin(ring.beads[j].x) /\ IsFin(ring.beads[j].y)
    /\ Drawn =>
         /\ Len(frame.out.calls) = Len(Beads(hooks.ringLayers, 1)) + CenterCount(params)
         /\ \A k \in 1..Len(frame.out.calls) :
              IsFin(frame.out.calls[k].x) /\ IsFin(frame.out.calls[k].y)

\* A frame of a field whose innermost ring is degenerate and whose outermost is not.
C8_Witness ==
  /\ Drawn
  /\ Len(hooks.ringLayers) >= 2
  /\ Lt(Mul(Num(2), hooks.ringLayers[Len(hooks.ringLayers)].radius), params.spacing)
  /\ hooks.ringLayers[Len(hooks.ringLayers)].beads = <<>>
  /\ Len(hooks.ringLayers[1].beads) >= 2
  /\ Len(frame.out.calls) >= 2

(***************************************************************************)
(* C9.  A tick that finds no surface attached issues no clear and no draw  *)
(* call and raises nothing, and leaves the start time, the hooks (the ring *)
(* layers among them) and the running status as they were; a tick that     *)
(* finds the surface attached clears it once and draws every bead.         *)
(***************************************************************************)
C9_TickWithoutSurface ==
  [][ (\E dt \in {0, TickMs} : Tick(dt)) =>
        IF ~canvasRef
        THEN /\ frame'.out.clears = <<>>
             /\ frame'.out.calls = <<>>
             /\ ~frame'.out.threw
             /\ animationStart' = animationStart
             /\ hooks' = hooks
             /\ status' = "running"
        ELSE /\ Len(frame'.out.clears) = 1
             /\ ~frame'.out.threw
             /\ Len(frame'.out.calls)
                  = Len(Beads(hooks.ringLayers, 1)) + CenterCount(params) ]_vars

\* A tick has just found no surface attached.
C9_Witness == frame.ticked /\ ~canvasRef /\ frame.out.calls = <<>>

(***************************************************************************)
(* C10.  In every state the component runs in, whatever ticks and option   *)
(* changes led to it, the ring layers the hooks hold and the ring layers   *)
(* draw closes over are the field built from the panel's current spacing,  *)
(* outerRingRadius, numRings, beadRadius, rotation, color1 and color2, and *)
(* a drawn frame has that field's beads at their positions; the field      *)
(* being a function of those options alone, a tick or a change of          *)
(* animationRunning or drawCenterBead leaves it as it was.                 *)
(***************************************************************************)
FreshField ==
  BuildRingLayers(
    [ spacing |-> params.spacing, rotation |-> params.rotation,
      beadRadius |-> params.beadRadius, beadColor |-> beadColor(host),
      canvasCenterX |-> canvasCenterX(host), canvasCenterY |-> canvasCenterY(host),
      generateMovement |-> [color1 |-> params.color1, color2 |-> params.color2] ],
    params.numRings, params.outerRingRadius).rings

C10_FieldFollowsOptions ==
  LET DrawnFrom(beads) ==
        /\ Len(frame.out.calls) = Len(beads) + CenterCount(params)
        /\ \A k \in 1..Len(beads) :
             /\ frame.out.calls[k].x = beads[k].x
             /\ frame.out.calls[k].y = beads[k].y
      Follows(field) ==
        /\ hooks.ringLayers = field
        /\ hooks.draw.ringLayers = field
        /\ Drawn => DrawnFrom(Beads(field, 1))
  IN status = "running" => Follows(FreshField)


\* A frame of a rotated field, drawn after the panel changed the rotation.
C10_Witness ==
  /\ Drawn
  /\ params.rotation # Zero
  /\ Len(Beads(hooks.ringLayers, 1)) >= 1
  /\ hooks.ringLayers = FreshField

====
